---- MODULE Spec2Model ----
(***************************************************************************)
(* Data-transfer manager (package impl) and push-channel monitor (package  *)
(* pushchannelmonitor) of go-data-transfer, src/impl/impl.go.              *)
(*                                                                         *)
(* The local peer is "self", the remote peer is "other".  A channel id is  *)
(* the pair (initiator, transfer id); the responder is the other peer.     *)
(* The channel store and its state machine (package channels), the         *)
(* network, the transport and the receiver are collaborators whose code is *)
(* not in impl.go: the store follows the event table of the design         *)
(* document, the network and the transport are nondeterministic in the     *)
(* outcome of every call (the ok parameters of the actions).               *)
(***************************************************************************)
EXTENDS Integers, Sequences, FiniteSets, TLC

\* ------------------------------------------------------------------ bounds
MaxTransferID == 1      \* transfer ids the stored counter hands out
MaxCalls == 2           \* Manager calls and inbound NewRequests in one behaviour
MaxBytes == 2           \* bytes a channel queues in one behaviour
MaxDuration == 1        \* largest duration / count a configuration is drawn with
CfgChecksPerInterval == 1       \* Config.ChecksPerInterval of the running monitor
CfgMinBytesSent == 1            \* Config.MinBytesSent of the running monitor
CfgMaxConsecutiveRestarts == 2  \* Config.MaxConsecutiveRestarts of the running monitor

Peers == {"self", "other"}
peerID == "self"
TransferIDs == 1..MaxTransferID
ChanIds == [initiator : Peers, id : TransferIDs]
NoChan == [initiator |-> "none", id |-> 0]
Vouchers == {"v1", "v2"}
InitialVouchers == {"v1"}
Errs == {"e1", "e2"}

VARIABLES
    channels,       \* m.channels: the store, channel id -> record
    network,        \* requests delivered to the other peer and not yet answered
    reconnects,     \* m.reconnects: channels waiting for a reconnect
    monChannels,    \* Monitor.channels: the entries of the push monitor
    mcs,            \* the monitoredChannel of each channel id
    tasks,          \* goroutines spawned and not yet run
    opening,        \* the Open*DataChannel call in progress, if any
    last,           \* the Manager call that returned last (the n-th): its result
    calls,          \* ... and the calls it made on its collaborators, in order
    orphans,        \* Responses the receiver got for a channel with no record
    ncalls,         \* Manager calls and inbound NewRequests so far
    pausable,       \* the transport implements PauseableTransport
    monEnabled,     \* pushChannelMonitorCfg != nil
    cfg,            \* Monitor.cfg: the *Config handed to NewMonitor, or "nil"
    monitor,        \* the Monitor: "none", "panicked", "off" (cfg nil), "run",
                    \* "cancelled" (m.stop() called), "exited" (run returned)
    sync            \* the locks of the monitor and of its entry, and where each
                    \* goroutine stands in its critical sections

vars == <<channels, network, reconnects, monChannels,
          mcs, tasks, opening, last, calls, orphans, ncalls, pausable, monEnabled,
          cfg, monitor, sync>>

\* ------------------------------------------------- channel state machine
Terminal == {"Completed", "Cancelled", "Failed"}
CleaningUp == {"Finalizing", "Completing", "Failing", "Cancelling"}
Paused == {"InitiatorPaused", "ResponderPaused", "BothPaused"}

IsChannelTerminated(st) == st \in Terminal
IsChannelCleaningUp(st) == st \in CleaningUp

NoRecord == [status |-> "NoRecord", isPull |-> FALSE, vouchers |-> <<>>,
             queued |-> 0, sent |-> 0]

\* The event table: the status after event ev at status st, "Invalid" when the
\* state machine rejects the event there (the record is then left alone).
FsmNext(st, ev) ==
    CASE ev = "Accept" -> IF st = "Requested" THEN "Ongoing" ELSE "Invalid"
      [] ev = "PauseInitiator" ->
            IF st = "Ongoing" THEN "InitiatorPaused"
            ELSE IF st = "ResponderPaused" THEN "BothPaused" ELSE "Invalid"
      [] ev = "ResumeInitiator" ->
            IF st = "InitiatorPaused" THEN "Ongoing"
            ELSE IF st = "BothPaused" THEN "ResponderPaused" ELSE "Invalid"
      [] ev = "PauseResponder" ->
            IF st = "Ongoing" THEN "ResponderPaused"
            ELSE IF st = "InitiatorPaused" THEN "BothPaused" ELSE "Invalid"
      [] ev = "ResumeResponder" ->
            IF st = "ResponderPaused" THEN "Ongoing"
            ELSE IF st = "BothPaused" THEN "InitiatorPaused" ELSE "Invalid"
      [] ev = "NewVoucher" -> IF st \in Terminal THEN "Invalid" ELSE st
      [] ev \in {"DataQueued", "DataSent"} ->
            IF st = "Ongoing" \/ st \in Paused THEN st ELSE "Invalid"
      [] ev = "FinishTransfer" -> IF st = "Ongoing" THEN "TransferFinished" ELSE "Invalid"
      [] ev = "Error" -> IF st \in Terminal THEN "Invalid" ELSE "Failing"
      [] ev = "Cancel" -> IF st \in Terminal THEN "Invalid" ELSE "Cancelling"
      [] ev \in {"CleanupComplete", "CompleteCleanupOnRestart"} ->
            CASE st = "Failing" -> "Failed"
              [] st = "Cancelling" -> "Cancelled"
              [] st = "Completing" -> "Completed"
              [] st = "Finalizing" /\ ev = "CompleteCleanupOnRestart" -> "Completed"
              [] OTHER -> "Invalid"
      [] OTHER -> "Invalid"

Exists(chs, c) == c \in ChanIds /\ chs[c].status # "NoRecord"

\* channels.GetByID
GetByID(chs, c) == IF Exists(chs, c) THEN chs[c] ELSE NoRecord

\* The outcome of firing ev on channel c.
FsmResult(chs, c, ev) ==
    IF ~Exists(chs, c) THEN "NotFound"
    ELSE IF FsmNext(chs[c].status, ev) = "Invalid" THEN "InvalidTransition"
    ELSE "ok"

\* The store after firing ev (with its payload) on channel c.
FsmFire(chs, c, ev, payload) ==
    IF FsmResult(chs, c, ev) # "ok" THEN chs
    ELSE [chs EXCEPT ![c] =
            [status |-> FsmNext(@.status, ev),
             isPull |-> @.isPull,
             vouchers |-> IF ev = "NewVoucher" THEN Append(@.vouchers, payload)
                          ELSE @.vouchers,
             queued |-> IF ev = "DataQueued" THEN @.queued + payload ELSE @.queued,
             sent |-> IF ev = "DataSent" THEN @.sent + payload ELSE @.sent]]

\* channels.CreateNew: a fresh record in Requested.
CreateNew(chs, c, isPull, voucher) ==
    [chs EXCEPT ![c] = [status |-> "Requested", isPull |-> isPull,
                        vouchers |-> <<voucher>>, queued |-> 0, sent |-> 0]]

\* ------------------------------------------------------------ push monitor
\* A nil *Config: the monitor is disabled.
nil == [nil |-> TRUE]

\* The configurations NewMonitor is called with: time.Duration fields are
\* signed, the uint32 / uint64 fields are not.
Durations == -1..MaxDuration
Unsigneds == 0..MaxDuration
Configs == [AcceptTimeout : Durations, Interval : Durations,
            MinBytesSent : Unsigneds, ChecksPerInterval : Unsigneds,
            RestartBackoff : Durations, MaxConsecutiveRestarts : Unsigneds,
            CompleteTimeout : Durations]

\* The configuration of the monitor that runs, with the given RestartBackoff.
RunConfig(backoff) ==
    [AcceptTimeout |-> 1, Interval |-> 1, MinBytesSent |-> CfgMinBytesSent,
     ChecksPerInterval |-> CfgChecksPerInterval, RestartBackoff |-> backoff,
     MaxConsecutiveRestarts |-> CfgMaxConsecutiveRestarts, CompleteTimeout |-> 1]

\* checkConfig testing the durations for zero only.
checkConfig_ZeroOnly(cf) ==
    IF cf = nil THEN "ok"
    ELSE IF cf.AcceptTimeout = 0 THEN "panic"
    ELSE IF cf.Interval = 0 THEN "panic"
    ELSE IF cf.ChecksPerInterval = 0 THEN "panic"
    ELSE IF cf.MinBytesSent = 0 THEN "panic"
    ELSE IF cf.MaxConsecutiveRestarts = 0 THEN "panic"
    ELSE IF cf.CompleteTimeout = 0 THEN "panic"
    ELSE "ok"

\* checkConfig: a nil configuration passes; RestartBackoff is not tested.
checkConfig(cf) ==
    IF cf = nil THEN "ok"
    ELSE IF cf.AcceptTimeout <= 0 THEN "panic"
    ELSE IF cf.Interval <= 0 THEN "panic"
    ELSE IF cf.ChecksPerInterval = 0 THEN "panic"
    ELSE IF cf.MinBytesSent = 0 THEN "panic"
    ELSE IF cf.MaxConsecutiveRestarts = 0 THEN "panic"
    ELSE IF cf.CompleteTimeout <= 0 THEN "panic"
    ELSE "ok"

\* NewMonitor: the Monitor is returned unless checkConfig panics.
NewMonitor(cf) == IF checkConfig(cf) = "panic" THEN "panicked" ELSE "constructed"

\* Monitor.enabled
enabled(cf) == cf # nil

\* Monitor.Start: the run loop is started when the monitor is enabled.
Start(m, cf) ==
    IF m # "constructed" THEN m ELSE IF enabled(cf) THEN "run" ELSE "off"

NoEntry == [present |-> FALSE, cancelled |-> FALSE, subscribed |-> FALSE,
            acceptTimer |-> "none", queued |-> 0, sent |-> 0,
            dataRatePoints |-> <<>>, consecutiveRestarts |-> 0,
            restartedAt |-> FALSE]

Task(kind, c) == [kind |-> kind, chid |-> c]

\* newMonitoredChannel and monitoredChannel.start: a live context, the accept
\* timer running, the event subscription installed.
newMonitoredChannel == [present |-> TRUE, cancelled |-> FALSE, subscribed |-> TRUE,
                        acceptTimer |-> "running", queued |-> 0, sent |-> 0,
                        dataRatePoints |-> <<>>, consecutiveRestarts |-> 0,
                        restartedAt |-> FALSE]

\* Monitor.AddChannel on the monitor state ms = [m: entries, t: goroutines,
\* set: Monitor.channels]: nothing when the monitor is disabled.
AddChannel(ms, c) ==
    IF ~monEnabled THEN ms
    ELSE [ms EXCEPT !.m[c] = newMonitoredChannel, !.set = @ \cup {c}]

\* Shutdown without the test of mc.cancel.
mcShutdown_Again(ms, c) ==
    IF ~ms.m[c].present THEN ms
    ELSE [ms EXCEPT !.m[c].cancelled = TRUE,
                    !.m[c].subscribed = FALSE,
                    !.m[c].acceptTimer = IF @ = "running" THEN "stopped" ELSE @,
                    !.t = @ \cup {Task("onShutdown", c)}]

\* monitoredChannel.Shutdown: a no-op when cancel is already nil; otherwise
\* cancel the context (which ends the accept watcher), unsubscribe, and spawn
\* the removal callback.
mcShutdown(ms, c) ==
    IF ~ms.m[c].present \/ ms.m[c].cancelled THEN ms
    ELSE [ms EXCEPT !.m[c].cancelled = TRUE,
                    !.m[c].subscribed = FALSE,
                    !.m[c].acceptTimer = IF @ = "running" THEN "stopped" ELSE @,
                    !.t = @ \cup {Task("onShutdown", c)}]

\* The subscriber without the watch for the responder's completion.
mcOnEvent_NoCompleteWatch(ms, c, ev, chst) ==
    IF ~ms.m[c].subscribed THEN ms
    ELSE IF IsChannelCleaningUp(chst.status) \/ IsChannelTerminated(chst.status)
         THEN [ms EXCEPT !.t = @ \cup {Task("Shutdown", c)}]
    ELSE CASE ev = "Accept" ->
                [ms EXCEPT !.m[c].acceptTimer =
                    IF @ = "running" THEN "stopped" ELSE @]
           [] ev = "Error" -> [ms EXCEPT !.t = @ \cup {Task("restartChannel", c)}]
           [] ev = "DataQueued" -> [ms EXCEPT !.m[c].queued = chst.queued]
           [] ev = "DataSent" -> [ms EXCEPT !.m[c].sent = chst.sent,
                                            !.m[c].consecutiveRestarts = 0]
           [] OTHER -> ms

\* mcOnEvent whose DataSent branch leaves the restart counter alone.
mcOnEvent_NoReset(ms, c, ev, chst) ==
    IF ~ms.m[c].subscribed THEN ms
    ELSE IF IsChannelCleaningUp(chst.status) \/ IsChannelTerminated(chst.status)
         THEN [ms EXCEPT !.t = @ \cup {Task("Shutdown", c)}]
    ELSE CASE ev = "Accept" ->
                [ms EXCEPT !.m[c].acceptTimer =
                    IF @ = "running" THEN "stopped" ELSE @]
           [] ev = "Error" -> [ms EXCEPT !.t = @ \cup {Task("restartChannel", c)}]
           [] ev = "DataQueued" -> [ms EXCEPT !.m[c].queued = chst.queued]
           [] ev = "DataSent" -> [ms EXCEPT !.m[c].sent = chst.sent]
           [] ev = "FinishTransfer" ->
                [ms EXCEPT !.t = @ \cup {Task("watchForResponderComplete", c)}]
           [] OTHER -> ms

\* mcOnEvent whose Accept branch leaves the accept timer running.
mcOnEvent_NoStop(ms, c, ev, chst) ==
    IF ~ms.m[c].subscribed THEN ms
    ELSE IF IsChannelCleaningUp(chst.status) \/ IsChannelTerminated(chst.status)
         THEN [ms EXCEPT !.t = @ \cup {Task("Shutdown", c)}]
    ELSE CASE ev = "Error" -> [ms EXCEPT !.t = @ \cup {Task("restartChannel", c)}]
           [] ev = "DataQueued" -> [ms EXCEPT !.m[c].queued = chst.queued]
           [] ev = "DataSent" -> [ms EXCEPT !.m[c].sent = chst.sent,
                                            !.m[c].consecutiveRestarts = 0]
           [] ev = "FinishTransfer" ->
                [ms EXCEPT !.t = @ \cup {Task("watchForResponderComplete", c)}]
           [] OTHER -> ms

\* The subscriber installed by monitoredChannel.start, called with an event
\* of channel c and the snapshot chst of the record taken after the event.
mcOnEvent(ms, c, ev, chst) ==
    IF ~ms.m[c].subscribed THEN ms
    ELSE IF IsChannelCleaningUp(chst.status) \/ IsChannelTerminated(chst.status)
         THEN [ms EXCEPT !.t = @ \cup {Task("Shutdown", c)}]
    ELSE CASE ev = "Accept" ->
                [ms EXCEPT !.m[c].acceptTimer =
                    IF @ = "running" THEN "stopped" ELSE @]
           [] ev = "Error" -> [ms EXCEPT !.t = @ \cup {Task("restartChannel", c)}]
           [] ev = "DataQueued" -> [ms EXCEPT !.m[c].queued = chst.queued]
           [] ev = "DataSent" -> [ms EXCEPT !.m[c].sent = chst.sent,
                                            !.m[c].consecutiveRestarts = 0]
           [] ev = "FinishTransfer" ->
                [ms EXCEPT !.t = @ \cup {Task("watchForResponderComplete", c)}]
           [] OTHER -> ms

\* onMonitoredChannelShutdown leaving the entry in Monitor.channels.
onMonitoredChannelShutdown_Keep(ms, c) == ms

\* Monitor.onMonitoredChannelShutdown
onMonitoredChannelShutdown(ms, c) == [ms EXCEPT !.set = @ \ {c}]

\* ------------------------------------------------ calls on collaborators
Eff(call, c, arg, ok) == [call |-> call, chid |-> c, arg |-> arg, ok |-> ok]
Ret(result, cs) == [result |-> result, calls |-> cs]

FsmEvents == {"Accept", "PauseInitiator", "ResumeInitiator", "PauseResponder",
              "ResumeResponder", "NewVoucher", "DataQueued", "DataSent",
              "FinishTransfer", "Error", "Cancel",
              "CleanupComplete", "CompleteCleanupOnRestart"}

State == [channels |-> channels, network |-> network, reconnects |-> reconnects,
          mon |-> [m |-> mcs, t |-> tasks, set |-> monChannels]]

\* The requests the other peer answers with a Response.
Requests == {"NewRequest"}

Msg(c, type) == [chid |-> c, type |-> type]

\* m.notifier: publish (event, snapshot) to the subscribers.
notifier(S, c, ev) == [S EXCEPT !.mon = mcOnEvent(@, c, ev, S.channels[c])]

\* What one call does to the state.  A state-machine event that is applied is
\* persisted and then published; a rejected one changes nothing.
ApplyCall(S, e) ==
    CASE e.call \in FsmEvents ->
            IF e.ok THEN notifier([S EXCEPT !.channels = FsmFire(@, e.chid, e.call, e.arg)],
                                  e.chid, e.call)
            ELSE S
      [] e.call \in {"CreateNew:push", "CreateNew:pull"} ->
            IF e.ok THEN [S EXCEPT !.channels =
                            CreateNew(@, e.chid, e.call = "CreateNew:pull", e.arg)]
            ELSE S
      [] e.call \in {"SendMessage", "OpenChannel"} ->
            IF e.ok /\ e.arg \in Requests
            THEN [S EXCEPT !.network = @ \cup {Msg(e.chid, e.arg)}]
            ELSE S
      [] e.call = "OnRequestDisconnected" -> [S EXCEPT !.reconnects = @ \cup {e.chid}]
      [] e.call = "AddChannel" -> [S EXCEPT !.mon = AddChannel(@, e.chid)]
      [] e.call = "monitoredChan.Shutdown" -> [S EXCEPT !.mon = mcShutdown(@, e.chid)]
      [] OTHER -> S

RECURSIVE ApplyCalls(_, _)
ApplyCalls(S, cs) ==
    IF cs = <<>> THEN S ELSE ApplyCalls(ApplyCall(S, Head(cs)), Tail(cs))

\* The state after the calls cs.
Becomes(S) ==
    /\ channels' = S.channels
    /\ network' = S.network
    /\ reconnects' = S.reconnects
    /\ mcs' = S.mon.m
    /\ tasks' = S.mon.t
    /\ monChannels' = S.mon.set

\* A Manager call that runs to its return in one step.
Returns(op, c, arg, r) ==
    /\ ncalls < MaxCalls
    /\ ncalls' = ncalls + 1
    /\ Becomes(ApplyCalls(State, r.calls))
    /\ last' = [n |-> last.n + 1, op |-> op, chid |-> c, arg |-> arg,
                result |-> r.result]
    /\ calls' = r.calls

\* ------------------------------------------------------- Manager operations
\* Each operation is the pair (result, calls made in order) it produces from
\* the current state and the outcomes of its calls on the network and the
\* transport.

NoOpening == [op |-> "none", chid |-> NoChan, voucher |-> "none", calls |-> <<>>]


\* openCreate going on after CreateNew failed.
openCreate_IgnoresCreateError(op, c, v, reqOK) ==
    IF ~reqOK THEN Ret("RequestError", <<>>)
    ELSE Ret("continue",
             <<Eff(IF op = "OpenPull" THEN "CreateNew:pull" ELSE "CreateNew:push",
                   c, v, ~Exists(channels, c)),
               Eff("Protect", c, "tag", TRUE)>>
             \o (IF op = "OpenPush" THEN <<Eff("AddChannel", c, "", TRUE)>> ELSE <<>>))

\* OpenPushDataChannel / OpenPullDataChannel up to the point where the request
\* is handed over: newRequest, CreateNew, Protect and, for a push, AddChannel.
openCreate(op, c, v, reqOK) ==
    IF ~reqOK THEN Ret("RequestError", <<>>)
    ELSE IF Exists(channels, c)
         THEN Ret("AlreadyExists",
                  <<Eff(IF op = "OpenPull" THEN "CreateNew:pull" ELSE "CreateNew:push",
                        c, v, FALSE)>>)
    ELSE Ret("continue",
             <<Eff(IF op = "OpenPull" THEN "CreateNew:pull" ELSE "CreateNew:push",
                   c, v, TRUE),
               Eff("Protect", c, "tag", TRUE)>>
             \o (IF op = "OpenPush" THEN <<Eff("AddChannel", c, "", TRUE)>> ELSE <<>>))


\* openPushSend with the shutdown of the monitor entry left out.
openPushSend_NoShutdown(c, sendOK) ==
    IF sendOK THEN Ret("ok", <<Eff("SendMessage", c, "NewRequest", TRUE)>>)
    ELSE Ret("SendError",
             <<Eff("SendMessage", c, "NewRequest", FALSE),
               Eff("Error", c, "UnableToSendRequest",
                   FsmResult(channels, c, "Error") = "ok")>>)

\* The rest of OpenPushDataChannel: send the request; on failure fire Error
\* and shut the monitor entry down when there is one.
openPushSend(c, sendOK) ==
    IF sendOK THEN Ret("ok", <<Eff("SendMessage", c, "NewRequest", TRUE)>>)
    ELSE Ret("SendError",
             <<Eff("SendMessage", c, "NewRequest", FALSE),
               Eff("Error", c, "UnableToSendRequest",
                   FsmResult(channels, c, "Error") = "ok")>>
             \o (IF monEnabled THEN <<Eff("monitoredChan.Shutdown", c, "", TRUE)>>
                 ELSE <<>>))

\* The rest of OpenPullDataChannel: the transport opens the channel and
\* carries the request.
openPullSend(c, openOK) ==
    IF openOK THEN Ret("ok", <<Eff("OpenChannel", c, "NewRequest", TRUE)>>)
    ELSE Ret("SendError",
             <<Eff("OpenChannel", c, "NewRequest", FALSE),
               Eff("Error", c, "UnableToSendRequest",
                   FsmResult(channels, c, "Error") = "ok")>>)


\* SendVoucher without the test of the initiator.
SendVoucher_AnyPeer(c, v, encOK, sendOK) ==
    IF ~Exists(channels, c) THEN Ret("NotFound", <<>>)
    ELSE IF ~encOK THEN Ret("EncodeError", <<>>)
    ELSE IF ~sendOK
         THEN Ret("SendError", <<Eff("SendMessage", c, "VoucherRequest", FALSE),
                                 Eff("OnRequestDisconnected", c, "", TRUE)>>)
    ELSE LET f == FsmResult(channels, c, "NewVoucher")
         IN  Ret(f, <<Eff("SendMessage", c, "VoucherRequest", TRUE),
                      Eff("NewVoucher", c, v, f = "ok")>>)

SendVoucher(c, v, encOK, sendOK) ==
    IF ~Exists(channels, c) THEN Ret("NotFound", <<>>)
    ELSE IF c.initiator # peerID THEN Ret("NotInitiator", <<>>)
    ELSE IF ~encOK THEN Ret("EncodeError", <<>>)
    ELSE IF ~sendOK
         THEN Ret("SendError", <<Eff("SendMessage", c, "VoucherRequest", FALSE),
                                 Eff("OnRequestDisconnected", c, "", TRUE)>>)
    ELSE LET f == FsmResult(channels, c, "NewVoucher")
         IN  Ret(f, <<Eff("SendMessage", c, "VoucherRequest", TRUE),
                      Eff("NewVoucher", c, v, f = "ok")>>)


\* CloseDataTransferChannel returning the error of the transport close.
CloseDataTransferChannel_ReturnsCloseErr(c, closeOK, sendOK) ==
    IF ~Exists(channels, c) THEN Ret("NotFound", <<>>)
    ELSE LET fsmerr == FsmResult(channels, c, "Cancel")
         IN  Ret(IF ~closeOK THEN "CloseError"
                 ELSE IF ~sendOK THEN "SendError" ELSE fsmerr,
                 <<Eff("CloseChannel", c, "", closeOK),
                   Eff("SendMessage", c, "CancelRequest", sendOK)>>
                 \o (IF ~sendOK THEN <<Eff("OnRequestDisconnected", c, "", TRUE)>>
                     ELSE <<>>)
                 \o <<Eff("Cancel", c, "", fsmerr = "ok")>>)

\* CloseDataTransferChannel returning as soon as the cancel message fails.
CloseDataTransferChannel_ReturnsEarly(c, closeOK, sendOK) ==
    IF ~Exists(channels, c) THEN Ret("NotFound", <<>>)
    ELSE LET fsmerr == FsmResult(channels, c, "Cancel")
         IN  IF ~sendOK
             THEN Ret("SendError",
                      <<Eff("CloseChannel", c, "", closeOK),
                        Eff("SendMessage", c, "CancelRequest", FALSE),
                        Eff("OnRequestDisconnected", c, "", TRUE)>>)
             ELSE Ret(fsmerr,
                      <<Eff("CloseChannel", c, "", closeOK),
                        Eff("SendMessage", c, "CancelRequest", TRUE),
                        Eff("Cancel", c, "", fsmerr = "ok")>>)

CloseDataTransferChannel(c, closeOK, sendOK) ==
    IF ~Exists(channels, c) THEN Ret("NotFound", <<>>)
    ELSE LET fsmerr == FsmResult(channels, c, "Cancel")
         IN  Ret(IF ~sendOK THEN "SendError" ELSE fsmerr,
                 <<Eff("CloseChannel", c, "", closeOK),
                   Eff("SendMessage", c, "CancelRequest", sendOK)>>
                 \o (IF ~sendOK THEN <<Eff("OnRequestDisconnected", c, "", TRUE)>>
                     ELSE <<>>)
                 \o <<Eff("Cancel", c, "", fsmerr = "ok")>>)


\* CloseDataTransferChannelWithError letting the error of the cancel message
\* take the place of the caller's error.
CloseDataTransferChannelWithError_Masked(c, cherr, closeOK, sendOK) ==
    IF ~Exists(channels, c) THEN Ret("NotFound", <<>>)
    ELSE LET err == FsmResult(channels, c, "Error")
         IN  Ret(err,
                 <<Eff("CloseChannel", c, "", closeOK),
                   Eff("SendMessage", c, "CancelRequest", sendOK),
                   Eff("Error", c, IF sendOK THEN cherr ELSE "UnableToSendCancel",
                       err = "ok")>>)

CloseDataTransferChannelWithError(c, cherr, closeOK, sendOK) ==
    IF ~Exists(channels, c) THEN Ret("NotFound", <<>>)
    ELSE LET err == FsmResult(channels, c, "Error")
         IN  Ret(err,
                 <<Eff("CloseChannel", c, "", closeOK),
                   Eff("SendMessage", c, "CancelRequest", sendOK),
                   Eff("Error", c, cherr, err = "ok")>>)

\* m.pause / m.resume: the event of the local peer's role in the channel.
pauseEvent(c) == IF c.initiator = peerID THEN "PauseInitiator" ELSE "PauseResponder"
resumeEvent(c) == IF c.initiator = peerID THEN "ResumeInitiator" ELSE "ResumeResponder"


\* PauseDataTransferChannel without the test of the pause capability.
PauseDataTransferChannel_NoProbe(c, pauseOK, sendOK) ==
    IF ~sendOK
    THEN Ret("SendError", <<Eff("PauseChannel", c, "", pauseOK),
                            Eff("SendMessage", c, "UpdateRequest:pause", FALSE),
                            Eff("OnRequestDisconnected", c, "", TRUE)>>)
    ELSE LET f == FsmResult(channels, c, pauseEvent(c))
         IN  Ret(f, <<Eff("PauseChannel", c, "", pauseOK),
                      Eff("SendMessage", c, "UpdateRequest:pause", TRUE),
                      Eff(pauseEvent(c), c, "", f = "ok")>>)

\* PauseDataTransferChannel that does not report a failed send as a disconnect.
PauseDataTransferChannel_NoDisconnect(c, pauseOK, sendOK) ==
    IF ~pausable THEN Ret("Unsupported", <<>>)
    ELSE IF ~sendOK
         THEN Ret("SendError", <<Eff("PauseChannel", c, "", pauseOK),
                                 Eff("SendMessage", c, "UpdateRequest:pause", FALSE)>>)
    ELSE LET f == FsmResult(channels, c, pauseEvent(c))
         IN  Ret(f, <<Eff("PauseChannel", c, "", pauseOK),
                      Eff("SendMessage", c, "UpdateRequest:pause", TRUE),
                      Eff(pauseEvent(c), c, "", f = "ok")>>)

PauseDataTransferChannel(c, pauseOK, sendOK) ==
    IF ~pausable THEN Ret("Unsupported", <<>>)
    ELSE IF ~sendOK
         THEN Ret("SendError", <<Eff("PauseChannel", c, "", pauseOK),
                                 Eff("SendMessage", c, "UpdateRequest:pause", FALSE),
                                 Eff("OnRequestDisconnected", c, "", TRUE)>>)
    ELSE LET f == FsmResult(channels, c, pauseEvent(c))
         IN  Ret(f, <<Eff("PauseChannel", c, "", pauseOK),
                      Eff("SendMessage", c, "UpdateRequest:pause", TRUE),
                      Eff(pauseEvent(c), c, "", f = "ok")>>)

ResumeDataTransferChannel(c, resumeOK) ==
    IF ~pausable THEN Ret("Unsupported", <<>>)
    ELSE LET f == FsmResult(channels, c, resumeEvent(c))
         IN  Ret(f, <<Eff("ResumeChannel", c, "UpdateRequest:resume", resumeOK),
                      Eff(resumeEvent(c), c, "", f = "ok")>>)

TransferChannelStatus(c) ==
    IF ~Exists(channels, c) THEN Ret("ChannelNotFoundError", <<>>)
    ELSE Ret(GetByID(channels, c).status, <<>>)


\* channelDataTransferType testing the initiator before the direction, with
\* the two inner results of the push side exchanged.
channelDataTransferType_Swapped(c) ==
    IF GetByID(channels, c).isPull
    THEN IF c.initiator = peerID THEN "ManagerPeerCreatePull" ELSE "ManagerPeerReceivePull"
    ELSE IF c.initiator = peerID THEN "ManagerPeerReceivePush" ELSE "ManagerPeerCreatePush"

channelDataTransferType(c) ==
    IF GetByID(channels, c).isPull
    THEN IF c.initiator = peerID THEN "ManagerPeerCreatePull" ELSE "ManagerPeerReceivePull"
    ELSE IF c.initiator = peerID THEN "ManagerPeerCreatePush" ELSE "ManagerPeerReceivePush"

\* The four restart actions of the role table.
restartManagerPeerReceivePush(c, ok) ==
    Ret(IF ok THEN "ok" ELSE "SendError",
        <<Eff("SendMessage", c, "RestartExistingChannelRequest", ok)>>)
restartManagerPeerReceivePull(c, ok) ==
    Ret(IF ok THEN "ok" ELSE "SendError",
        <<Eff("SendMessage", c, "RestartExistingChannelRequest", ok)>>)
openPullRestartChannel(c, ok) ==
    Ret(IF ok THEN "ok" ELSE "SendError",
        <<Eff("OpenChannel", c, "NewRequest:restart", ok)>>)
openPushRestartChannel(c, ok) ==
    Ret(IF ok THEN "ok" ELSE "SendError",
        <<Eff("SendMessage", c, "NewRequest:restart", ok)>>)


\* RestartDataTransferChannel going on without the record.
RestartDataTransferChannel_NoLookup(c, ok) ==
    IF IsChannelTerminated(GetByID(channels, c).status) THEN Ret("ok", <<>>)
    ELSE IF IsChannelCleaningUp(GetByID(channels, c).status)
         THEN LET f == FsmResult(channels, c, "CompleteCleanupOnRestart")
              IN  Ret(f, <<Eff("CompleteCleanupOnRestart", c, "", f = "ok")>>)
    ELSE CASE channelDataTransferType(c) = "ManagerPeerReceivePush" ->
                restartManagerPeerReceivePush(c, ok)
           [] channelDataTransferType(c) = "ManagerPeerReceivePull" ->
                restartManagerPeerReceivePull(c, ok)
           [] channelDataTransferType(c) = "ManagerPeerCreatePull" ->
                openPullRestartChannel(c, ok)
           [] channelDataTransferType(c) = "ManagerPeerCreatePush" ->
                openPushRestartChannel(c, ok)
           [] OTHER -> Ret("ok", <<>>)

RestartDataTransferChannel(c, ok) ==
    IF ~Exists(channels, c) THEN Ret("NotFound", <<>>)
    ELSE IF IsChannelTerminated(GetByID(channels, c).status) THEN Ret("ok", <<>>)
    ELSE IF IsChannelCleaningUp(GetByID(channels, c).status)
         THEN LET f == FsmResult(channels, c, "CompleteCleanupOnRestart")
              IN  Ret(f, <<Eff("CompleteCleanupOnRestart", c, "", f = "ok")>>)
    ELSE CASE channelDataTransferType(c) = "ManagerPeerReceivePush" ->
                restartManagerPeerReceivePush(c, ok)
           [] channelDataTransferType(c) = "ManagerPeerReceivePull" ->
                restartManagerPeerReceivePull(c, ok)
           [] channelDataTransferType(c) = "ManagerPeerCreatePull" ->
                openPullRestartChannel(c, ok)
           [] channelDataTransferType(c) = "ManagerPeerCreatePush" ->
                openPushRestartChannel(c, ok)
           [] OTHER -> Ret("ok", <<>>)

\* ------------------------------------------------- push monitor operations
\* The sample checkDataRate pushes before it returns.
dataRatePoint(mc) ==
    [pending |-> IF mc.queued > mc.sent THEN mc.queued - mc.sent ELSE 0,
     sent |-> mc.sent]

\* checkDataRate restarting when either of the two conditions holds.
mcCheckDataRate_Either(mc) ==
    IF Len(mc.dataRatePoints) < cfg.ChecksPerInterval
    THEN [mc |-> [mc EXCEPT !.dataRatePoints = Append(@, dataRatePoint(mc))],
          restart |-> FALSE]
    ELSE LET atIntervalStart == Head(mc.dataRatePoints)
             sentInInterval == mc.sent - atIntervalStart.sent
         IN  [mc |-> [mc EXCEPT !.dataRatePoints = Append(Tail(@), dataRatePoint(mc))],
              restart |-> \/ atIntervalStart.pending > sentInInterval
                          \/ sentInInterval < cfg.MinBytesSent]

\* checkDataRate asking for more than MinBytesSent pending at the interval's start.
mcCheckDataRate_StrictPending(mc) ==
    IF Len(mc.dataRatePoints) < cfg.ChecksPerInterval
    THEN [mc |-> [mc EXCEPT !.dataRatePoints = Append(@, dataRatePoint(mc))],
          restart |-> FALSE]
    ELSE LET atIntervalStart == Head(mc.dataRatePoints)
             sentInInterval == mc.sent - atIntervalStart.sent
         IN  [mc |-> [mc EXCEPT !.dataRatePoints = Append(Tail(@), dataRatePoint(mc))],
              restart |-> /\ atIntervalStart.pending > cfg.MinBytesSent
                          /\ sentInInterval < cfg.MinBytesSent]

\* monitoredChannel.checkDataRate on the entry mc: the entry after the check
\* and whether `go mc.restartChannel()` was spawned.  mc.sent never falls
\* below an earlier sample, so the unsigned difference does not wrap.
mcCheckDataRate(mc) ==
    IF Len(mc.dataRatePoints) < cfg.ChecksPerInterval
    THEN [mc |-> [mc EXCEPT !.dataRatePoints = Append(@, dataRatePoint(mc))],
          restart |-> FALSE]
    ELSE LET atIntervalStart == Head(mc.dataRatePoints)
             sentInInterval == mc.sent - atIntervalStart.sent
         IN  [mc |-> [mc EXCEPT !.dataRatePoints = Append(Tail(@), dataRatePoint(mc))],
              restart |-> /\ atIntervalStart.pending > sentInInterval
                          /\ sentInInterval < cfg.MinBytesSent]

\* Monitor.checkDataRate: every entry of Monitor.channels is checked.
checkDataRate(ms) ==
    [ms EXCEPT !.m = [c \in ChanIds |-> IF c \in ms.set THEN mcCheckDataRate(ms.m[c]).mc
                                        ELSE ms.m[c]],
               !.t = @ \cup {Task("restartChannel", c) :
                               c \in {d \in ms.set : mcCheckDataRate(ms.m[d]).restart}}]

\* Monitor.onShutdown: every entry of Monitor.channels is shut down.
onShutdown(ms) ==
    [ms EXCEPT !.m = [c \in ChanIds |-> IF c \in ms.set THEN mcShutdown(ms, c).m[c]
                                        ELSE ms.m[c]],
               !.t = @ \cup UNION {mcShutdown(ms, c).t : c \in ms.set}]

\* restartGuard letting every attempt go on.
restartGuard_NoGuard(mc) ==
    [proceed |-> TRUE, mc |-> [mc EXCEPT !.restartedAt = TRUE]]

\* restartChannel, first critical section: read restartedAt and set it when
\* it is zero; the attempt goes on only when it was zero.
restartGuard(mc) ==
    [proceed |-> ~mc.restartedAt, mc |-> [mc EXCEPT !.restartedAt = TRUE]]

\* restartCount allowing one attempt more than MaxConsecutiveRestarts.
restartCount_OneMore(mc) ==
    LET restartCount_ == mc.consecutiveRestarts + 1
    IN  [mc |-> [mc EXCEPT !.consecutiveRestarts = restartCount_],
         close |-> restartCount_ > cfg.MaxConsecutiveRestarts + 1]

\* restartChannel, second critical section: count the attempt; over the limit
\* the channel is closed instead of restarted.
restartCount(mc) ==
    LET restartCount_ == mc.consecutiveRestarts + 1
    IN  [mc |-> [mc EXCEPT !.consecutiveRestarts = restartCount_],
         close |-> restartCount_ > cfg.MaxConsecutiveRestarts]

\* afterRestart without the backoff.
afterRestart_NoSleep == "clear"

\* restartChannel after a RestartDataTransferChannel that succeeded: "sleep"
\* when the goroutine backs off first, "clear" when restartedAt is zeroed at once.
afterRestart == IF cfg.RestartBackoff > 0 THEN "sleep" ELSE "clear"

\* closeChannelAndShutdown without the shutdown of the entry.
closeChannelAndShutdown_NoShutdown(c, cherr, closeOK, sendOK) ==
    CloseDataTransferChannelWithError(c, cherr, closeOK, sendOK)

\* closeChannelAndShutdown: CloseDataTransferChannelWithError, its error only
\* logged, then mc.Shutdown().
closeChannelAndShutdown(c, cherr, closeOK, sendOK) ==
    LET r == CloseDataTransferChannelWithError(c, cherr, closeOK, sendOK)
    IN  Ret(r.result, r.calls \o <<Eff("monitoredChan.Shutdown", c, "", TRUE)>>)

\* ------------------------------------------------------------------ actions
\* A Manager just constructed: no channel, no call made.
\* The goroutines that take the locks of the monitor and of one entry.
Threads == {"AddChannel", "checkDataRate", "onShutdown", "subscriber", "Shutdown",
            "watchForResponderAccept", "onMonitoredChannelShutdown", "restartChannel"}

\* shutdownLk, statsLk and restartLk of the monitoredChannel.
Mutexes == {"shutdownLk", "statsLk", "restartLk"}

\* No goroutine running, Monitor.lk (w: the writer, r: the readers, wait: the
\* writers blocked in Lock) and the mutexes free, no entry yet.
Unlocked ==
    [pc |-> [t \in Threads |-> 0],
     lk |-> [w |-> "free", r |-> {}, wait |-> {}],
     mu |-> [l \in Mutexes |-> "free"],
     points |-> 0, added |-> FALSE, timer |-> FALSE, subscribed |-> FALSE,
     inSet |-> FALSE, cancelled |-> FALSE, restartedAt |-> FALSE,
     branch |-> "none", stopped |-> FALSE, exited |-> FALSE]

Idle ==
    /\ channels = [c \in ChanIds |-> NoRecord]
    /\ network = {}
    /\ reconnects = {}
    /\ monChannels = {}
    /\ mcs = [c \in ChanIds |-> NoEntry]
    /\ tasks = {}
    /\ opening = NoOpening
    /\ last = [n |-> 0, op |-> "none", chid |-> NoChan, arg |-> "none",
               result |-> "none"]
    /\ calls = <<>>
    /\ orphans = {}
    /\ ncalls = 0
    /\ sync = Unlocked

Init ==
    /\ Idle
    /\ pausable \in BOOLEAN
    /\ monEnabled \in BOOLEAN
    /\ cfg = IF monEnabled THEN RunConfig(1) ELSE nil
    /\ monitor = Start(NewMonitor(cfg), cfg)

Config == <<pausable, monEnabled, cfg, sync>>

\* A caller holds a channel id once the call that opens the channel returned it.
Known(c) == c # opening.chid

\* First part of OpenPushDataChannel / OpenPullDataChannel; the stored counter
\* hands out the transfer id tid.
OpenCreate(op, tid, v, reqOK) ==
    /\ opening.op = "none"
    /\ LET c == [initiator |-> peerID, id |-> tid]
           r == openCreate(op, c, v, reqOK)
       IN  IF r.result = "continue"
           THEN /\ ncalls < MaxCalls
                /\ ncalls' = ncalls + 1
                /\ Becomes(ApplyCalls(State, r.calls))
                /\ opening' = [op |-> op, chid |-> c, voucher |-> v, calls |-> r.calls]
                /\ UNCHANGED <<last, calls>>
           ELSE /\ Returns(op, IF reqOK THEN c ELSE NoChan, v, r)
                /\ UNCHANGED opening
    /\ UNCHANGED <<orphans, Config, monitor>>

\* Second part: the request goes out and the call returns.
OpenSend(ok) ==
    /\ opening.op # "none"
    /\ LET c == opening.chid
           r == IF opening.op = "OpenPush" THEN openPushSend(c, ok)
                ELSE openPullSend(c, ok)
       IN  /\ Becomes(ApplyCalls(State, r.calls))
           /\ last' = [n |-> last.n + 1, op |-> opening.op, chid |-> c,
                       arg |-> opening.voucher, result |-> r.result]
           /\ calls' = opening.calls \o r.calls
    /\ opening' = NoOpening
    /\ UNCHANGED <<orphans, ncalls, Config, monitor>>

DoSendVoucher(c, v, encOK, sendOK) ==
    /\ Known(c)
    /\ Returns("SendVoucher", c, v, SendVoucher(c, v, encOK, sendOK))
    /\ UNCHANGED <<opening, orphans, Config, monitor>>

DoClose(c, closeOK, sendOK) ==
    /\ Known(c)
    /\ Returns("Close", c, "none", CloseDataTransferChannel(c, closeOK, sendOK))
    /\ UNCHANGED <<opening, orphans, Config, monitor>>

DoCloseWithError(c, cherr, closeOK, sendOK) ==
    /\ Known(c)
    /\ Returns("CloseWithError", c, cherr,
               CloseDataTransferChannelWithError(c, cherr, closeOK, sendOK))
    /\ UNCHANGED <<opening, orphans, Config, monitor>>

DoPause(c, pauseOK, sendOK) ==
    /\ Known(c)
    /\ Returns("Pause", c, "none", PauseDataTransferChannel(c, pauseOK, sendOK))
    /\ UNCHANGED <<opening, orphans, Config, monitor>>

DoResume(c, resumeOK) ==
    /\ Known(c)
    /\ Returns("Resume", c, "none", ResumeDataTransferChannel(c, resumeOK))
    /\ UNCHANGED <<opening, orphans, Config, monitor>>

DoRestart(c, ok) ==
    /\ Known(c)
    /\ Returns("Restart", c, "none", RestartDataTransferChannel(c, ok))
    /\ UNCHANGED <<opening, orphans, Config, monitor>>

DoStatus(c) ==
    /\ Known(c)
    /\ Returns("Status", c, "none", TransferChannelStatus(c))
    /\ UNCHANGED <<opening, orphans, Config, monitor>>

\* The receiver gets the Response(accepted) to a request that reached the
\* other peer, and fires Accept.
ReceiveResponse(c) ==
    /\ c.initiator = peerID
    /\ Msg(c, "NewRequest") \in network
    /\ IF Exists(channels, c)
       THEN /\ Becomes(ApplyCalls([State EXCEPT !.network = @ \ {Msg(c, "NewRequest")}],
                                   <<Eff("Accept", c, "",
                                         FsmResult(channels, c, "Accept") = "ok")>>))
            /\ UNCHANGED orphans
       ELSE /\ orphans' = orphans \cup {c}
            /\ network' = network \ {Msg(c, "NewRequest")}
            /\ UNCHANGED <<channels, reconnects, monChannels, mcs, tasks>>
    /\ UNCHANGED <<opening, last, calls, ncalls, Config, monitor>>

\* The receiver gets a NewRequest of the other peer: the record is created and
\* the validated request accepted.
ReceiveNewRequest(tid, isPull, v) ==
    /\ LET c == [initiator |-> "other", id |-> tid]
       IN  /\ ~Exists(channels, c)
           /\ Becomes(ApplyCalls(State,
                <<Eff(IF isPull THEN "CreateNew:pull" ELSE "CreateNew:push", c, v, TRUE),
                  Eff("Accept", c, "", TRUE)>>))
    /\ ncalls < MaxCalls
    /\ ncalls' = ncalls + 1
    /\ UNCHANGED <<opening, last, calls, orphans, Config, monitor>>

\* The cleanup of a channel ends: CleanupComplete takes it to its terminal status.
CleanupComplete(c) ==
    /\ FsmResult(channels, c, "CleanupComplete") = "ok"
    /\ Becomes(ApplyCalls(State, <<Eff("CleanupComplete", c, "", TRUE)>>))
    /\ UNCHANGED <<opening, last, calls, orphans, ncalls, Config, monitor>>

\* The goroutine `go mc.Shutdown()` of the event subscriber runs.
RunShutdown(c) ==
    /\ Task("Shutdown", c) \in tasks
    /\ Becomes([State EXCEPT !.mon = mcShutdown([@ EXCEPT !.t = @ \ {Task("Shutdown", c)}], c)])
    /\ UNCHANGED <<opening, last, calls, orphans, ncalls, Config, monitor>>

\* The goroutine `go mc.onShutdown(mc)` runs.
RunOnShutdown(c) ==
    /\ Task("onShutdown", c) \in tasks
    /\ Becomes([State EXCEPT !.mon =
                    onMonitoredChannelShutdown([@ EXCEPT !.t = @ \ {Task("onShutdown", c)}], c)])
    /\ UNCHANGED <<opening, last, calls, orphans, ncalls, Config, monitor>>

Next ==
    \/ \E op \in {"OpenPush", "OpenPull"}, tid \in TransferIDs, v \in InitialVouchers,
          reqOK \in BOOLEAN : OpenCreate(op, tid, v, reqOK)
    \/ \E ok \in BOOLEAN : OpenSend(ok)
    \/ \E c \in ChanIds, v \in Vouchers, encOK, sendOK \in BOOLEAN :
          DoSendVoucher(c, v, encOK, sendOK)
    \/ \E c \in ChanIds, closeOK, sendOK \in BOOLEAN : DoClose(c, closeOK, sendOK)
    \/ \E c \in ChanIds, cherr \in Errs, closeOK, sendOK \in BOOLEAN :
          DoCloseWithError(c, cherr, closeOK, sendOK)
    \/ \E c \in ChanIds, pauseOK, sendOK \in BOOLEAN : DoPause(c, pauseOK, sendOK)
    \/ \E c \in ChanIds, resumeOK \in BOOLEAN : DoResume(c, resumeOK)
    \/ \E c \in ChanIds, ok \in BOOLEAN : DoRestart(c, ok)
    \/ \E c \in ChanIds : DoStatus(c)
    \/ \E c \in ChanIds : ReceiveResponse(c)
    \/ \E tid \in TransferIDs, isPull \in BOOLEAN, v \in InitialVouchers :
          ReceiveNewRequest(tid, isPull, v)
    \/ \E c \in ChanIds : CleanupComplete(c)
    \/ \E c \in ChanIds : RunShutdown(c)
    \/ \E c \in ChanIds : RunOnShutdown(c)

Spec == Init /\ [][Next]_vars

\* ------------------------------------------- construction of the monitor
\* NewDataTransfer hands its configuration to NewMonitor and starts the
\* monitor it gets back.
ManagerVars == <<channels, network, reconnects, monChannels, mcs, tasks, opening,
                 last, calls, orphans, ncalls, pausable, monEnabled, sync>>

CfgInit ==
    /\ Idle
    /\ pausable = TRUE
    /\ cfg \in Configs \cup {nil}
    /\ monEnabled = enabled(cfg)
    /\ monitor = "none"

CallNewMonitor ==
    /\ monitor = "none"
    /\ monitor' = NewMonitor(cfg)
    /\ UNCHANGED <<ManagerVars, cfg>>

CallStart ==
    /\ monitor = "constructed"
    /\ monitor' = Start(monitor, cfg)
    /\ UNCHANGED <<ManagerVars, cfg>>

CfgNext == CallNewMonitor \/ CallStart

CfgSpec == CfgInit /\ [][CfgNext]_vars

\* ------------------------------------------------ the monitor at work
\* A Manager whose monitor runs; the local peer opens a push channel, the
\* transport and the other peer produce the events of the channel, and the
\* goroutines of the monitor run in any order.
MonInit ==
    /\ Idle
    /\ pausable = TRUE
    /\ monEnabled = TRUE
    /\ cfg \in {RunConfig(b) : b \in 0..1}
    /\ monitor = Start(NewMonitor(cfg), cfg)

\* The errors the monitor closes a channel with.
MonErrs == {"AcceptTimeout", "CompleteTimeout", "ConsecutiveRestarts", "RestartFailed"}

Take(S, kind, c) == [S EXCEPT !.mon.t = @ \ {Task(kind, c)}]
Spawn(S, kind, c) == [S EXCEPT !.mon.t = @ \cup {Task(kind, c)}]

\* A call of the monitor on its monitorAPI, made from the state S.  Of the
\* call the model keeps the operation, its argument and its result; last.n
\* alternates, so that every such call changes it.
MonReturns(S, op, c, arg, r) ==
    /\ Becomes(ApplyCalls(S, r.calls))
    /\ last' = [n |-> (last.n + 1) % 2, op |-> op, chid |-> c, arg |-> arg,
                result |-> r.result]
    /\ calls' = <<>>

Rest == <<opening, orphans, ncalls, Config>>

\* Monitor.run: the ticker fires.  After m.stop() the select may still take
\* the ticker's case.
Tick ==
    /\ monitor \in {"run", "cancelled"}
    /\ Becomes([State EXCEPT !.mon = checkDataRate(@)])
    /\ UNCHANGED <<Rest, last, calls, monitor>>

\* Manager.Stop: Monitor.Shutdown cancels the context of the run loop.
Stop ==
    /\ monitor = "run"
    /\ monitor' = "cancelled"
    /\ UNCHANGED <<ManagerVars, cfg>>

\* Monitor.run returns on m.ctx.Done() and the deferred onShutdown runs.
RunExit ==
    /\ monitor = "cancelled"
    /\ monitor' = "exited"
    /\ Becomes([State EXCEPT !.mon = onShutdown(@)])
    /\ UNCHANGED <<Rest, last, calls>>

\* The transport or the other peer produces event ev (with n bytes) on c.
ChannelEvent(c, ev, n) ==
    /\ FsmResult(channels, c, ev) = "ok"
    /\ ev = "DataQueued" => channels[c].queued + n <= MaxBytes
    /\ ev = "DataSent" => channels[c].sent + n <= channels[c].queued
    /\ Becomes(ApplyCalls(State, <<Eff(ev, c, n, TRUE)>>))
    /\ UNCHANGED <<Rest, last, calls, monitor>>

\* The accept timer fires in the goroutine of watchForResponderAccept.
AcceptTimerFires(c, closeOK, sendOK) ==
    /\ mcs[c].acceptTimer = "running"
    /\ MonReturns([State EXCEPT !.mon.m[c].acceptTimer = "fired"],
                  "mon.CloseWithError", c, "AcceptTimeout",
                  closeChannelAndShutdown(c, "AcceptTimeout", closeOK, sendOK))
    /\ UNCHANGED <<Rest, monitor>>

\* The complete timer fires in watchForResponderComplete.
CompleteTimerFires(c, closeOK, sendOK) ==
    /\ Task("watchForResponderComplete", c) \in tasks
    /\ ~mcs[c].cancelled
    /\ MonReturns(Take(State, "watchForResponderComplete", c),
                  "mon.CloseWithError", c, "CompleteTimeout",
                  closeChannelAndShutdown(c, "CompleteTimeout", closeOK, sendOK))
    /\ UNCHANGED <<Rest, monitor>>

\* watchForResponderComplete ends on mc.ctx.Done().
WatchCompleteDone(c) ==
    /\ Task("watchForResponderComplete", c) \in tasks
    /\ mcs[c].cancelled
    /\ Becomes(Take(State, "watchForResponderComplete", c))
    /\ UNCHANGED <<Rest, last, calls, monitor>>

\* restartChannel, lines 900-911.
RestartGuard(c) ==
    /\ Task("restartChannel", c) \in tasks
    /\ LET g == restartGuard(mcs[c])
           S == Take(State, "restartChannel", c)
       IN  IF g.proceed
           THEN Becomes(Spawn([S EXCEPT !.mon.m[c] = g.mc], "restart:count", c))
           ELSE Becomes(S)
    /\ UNCHANGED <<Rest, last, calls, monitor>>

\* restartChannel, lines 913-925.
RestartCount(c, closeOK, sendOK) ==
    /\ Task("restart:count", c) \in tasks
    /\ LET k == restartCount(mcs[c])
           S == [Take(State, "restart:count", c) EXCEPT !.mon.m[c] = k.mc]
       IN  IF k.close
           THEN MonReturns(S, "mon.CloseWithError", c, "ConsecutiveRestarts",
                           closeChannelAndShutdown(c, "ConsecutiveRestarts",
                                                   closeOK, sendOK))
           ELSE /\ Becomes(Spawn(S, "restart:call", c))
                /\ UNCHANGED <<last, calls>>
    /\ UNCHANGED <<Rest, monitor>>

\* restartChannel, lines 927-937 and 950-952: the restart message; on success
\* without a backoff restartedAt is zeroed at once.
RestartCall(c, ok) ==
    /\ Task("restart:call", c) \in tasks
    /\ LET r == RestartDataTransferChannel(c, ok)
           S == Take(State, "restart:call", c)
       IN  MonReturns(IF r.result # "ok" THEN Spawn(S, "restart:failed", c)
                      ELSE IF afterRestart = "sleep" THEN Spawn(S, "restart:backoff", c)
                      ELSE [S EXCEPT !.mon.m[c].restartedAt = FALSE],
                      "mon.Restart", c, "none", r)
    /\ UNCHANGED <<Rest, monitor>>

\* restartChannel, lines 932-936 and 950-952: the restart failed.
RestartFailed(c, closeOK, sendOK) ==
    /\ Task("restart:failed", c) \in tasks
    /\ MonReturns([Take(State, "restart:failed", c) EXCEPT !.mon.m[c].restartedAt = FALSE],
                  "mon.CloseWithError", c, "RestartFailed",
                  closeChannelAndShutdown(c, "RestartFailed", closeOK, sendOK))
    /\ UNCHANGED <<Rest, monitor>>

\* restartChannel, lines 941-952: the backoff ends, by the timer or by
\* mc.ctx.Done(), and restartedAt is zeroed.
BackoffEnd(c) ==
    /\ Task("restart:backoff", c) \in tasks
    /\ Becomes([Take(State, "restart:backoff", c) EXCEPT !.mon.m[c].restartedAt = FALSE])
    /\ UNCHANGED <<Rest, last, calls, monitor>>

MonEvents == {"DataQueued", "DataSent", "FinishTransfer", "Error", "Cancel"}

\* The caller's one OpenPushDataChannel, the answer of the other peer, the end
\* of a cleanup, and the goroutines of the monitor.
Goroutines ==
    \/ \E v \in InitialVouchers : ncalls = 0 /\ OpenCreate("OpenPush", 1, v, TRUE)
    \/ \E ok \in BOOLEAN : OpenSend(ok)
    \/ \E c \in ChanIds : ReceiveResponse(c)
    \/ \E c \in ChanIds : CleanupComplete(c)
    \/ Tick
    \/ \E c \in ChanIds : RunShutdown(c)
    \/ \E c \in ChanIds : RunOnShutdown(c)
    \/ \E c \in ChanIds, closeOK, sendOK \in BOOLEAN : AcceptTimerFires(c, closeOK, sendOK)
    \/ \E c \in ChanIds, closeOK, sendOK \in BOOLEAN : CompleteTimerFires(c, closeOK, sendOK)
    \/ \E c \in ChanIds : WatchCompleteDone(c)
    \/ \E c \in ChanIds : RestartGuard(c)
    \/ \E c \in ChanIds, closeOK, sendOK \in BOOLEAN : RestartCount(c, closeOK, sendOK)
    \/ \E c \in ChanIds, ok \in BOOLEAN : RestartCall(c, ok)
    \/ \E c \in ChanIds, closeOK, sendOK \in BOOLEAN : RestartFailed(c, closeOK, sendOK)
    \/ \E c \in ChanIds : BackoffEnd(c)

\* The monitor while the Manager runs.
MonNext ==
    \/ Goroutines
    \/ \E c \in ChanIds, ev \in MonEvents, n \in 1..MaxBytes : ChannelEvent(c, ev, n)

MonSpec == MonInit /\ [][MonNext]_vars

\* The monitor while the Manager runs and is stopped.
StopNext ==
    \/ MonNext
    \/ Stop
    \/ RunExit

StopSpec == MonInit /\ [][StopNext]_vars

\* The monitor without the ticker: the events of the channel, the timers and
\* the goroutines of the shutdown.
EndNext ==
    \/ \E v \in InitialVouchers : ncalls = 0 /\ OpenCreate("OpenPush", 1, v, TRUE)
    \/ \E ok \in BOOLEAN : OpenSend(ok)
    \/ \E c \in ChanIds : ReceiveResponse(c)
    \/ \E c \in ChanIds : CleanupComplete(c)
    \/ \E c \in ChanIds : RunShutdown(c)
    \/ \E c \in ChanIds : RunOnShutdown(c)
    \/ \E c \in ChanIds, closeOK, sendOK \in BOOLEAN : AcceptTimerFires(c, closeOK, sendOK)
    \/ \E c \in ChanIds, closeOK, sendOK \in BOOLEAN : CompleteTimerFires(c, closeOK, sendOK)
    \/ \E c \in ChanIds : WatchCompleteDone(c)
    \/ \E c \in ChanIds, ev \in MonEvents, n \in 1..MaxBytes : ChannelEvent(c, ev, n)

\* A goroutine that was spawned and can run does run: `go mc.Shutdown()` and
\* `go mc.onShutdown(mc)` wait for nothing but their locks.
EndFairness ==
    \A c \in ChanIds : WF_vars(RunShutdown(c)) /\ WF_vars(RunOnShutdown(c))

EndSpec == MonInit /\ [][EndNext]_vars /\ EndFairness

\* ------------------------------------------------- locks of the monitor
\* The critical sections of the monitor's goroutines for one entry, as
\* sequences of instructions.
Lock(l) == [op |-> "Lock", on |-> l]
Unlock(l) == [op |-> "Unlock", on |-> l]
RLock == [op |-> "RLock", on |-> "lk"]
RUnlock == [op |-> "RUnlock", on |-> "lk"]
Do(what) == [op |-> what, on |-> "none"]

\* mc.Shutdown
ProgShutdown == <<Lock("shutdownLk"), Do("Shutdown"), Unlock("shutdownLk")>>

\* Monitor.AddChannel with newMonitoredChannel and start inside.
ProgAddChannel ==
    <<Lock("lk"), Lock("shutdownLk"), Do("NewTimer"), Do("SubscribeToEvents"),
      Unlock("shutdownLk"), Do("insert"), Unlock("lk")>>

\* Monitor.checkDataRate with mc.checkDataRate inside.
ProgCheckDataRate ==
    <<RLock, Do("range"), Lock("statsLk"), Do("check"), Do("push"),
      Unlock("statsLk"), RUnlock>>

\* Monitor.onShutdown with mc.Shutdown inside.
ProgOnShutdown == <<RLock, Do("range")>> \o ProgShutdown \o <<RUnlock>>

\* The event subscriber.
ProgSubscriber == <<Lock("statsLk"), Do("event"), Unlock("statsLk")>>

\* Monitor.onMonitoredChannelShutdown
ProgRemoval == <<Lock("lk"), Do("delete"), Unlock("lk")>>

\* restartChannel, with the mc.Shutdown of closeChannelAndShutdown inside.
ProgRestartChannel ==
    <<Lock("restartLk"), Do("guard"), Unlock("restartLk"),
      Lock("statsLk"), Do("count"), Unlock("statsLk"), Do("Restart")>>
    \o ProgShutdown
    \o <<Lock("restartLk"), Do("clear"), Unlock("restartLk")>>

Program(t) ==
    CASE t = "AddChannel" -> ProgAddChannel
      [] t = "checkDataRate" -> ProgCheckDataRate
      [] t = "onShutdown" -> ProgOnShutdown
      [] t = "subscriber" -> ProgSubscriber
      [] t = "onMonitoredChannelShutdown" -> ProgRemoval
      [] t = "restartChannel" -> ProgRestartChannel
      [] OTHER -> ProgShutdown

Instr(S, t) == IF S.pc[t] = 0 THEN Do("idle") ELSE Program(t)[S.pc[t]]

\* The buffer after `<-mc.dataRatePoints` that does not take the point out.
popPoint_None(n) == n

\* The length of the buffer after `<-mc.dataRatePoints`.
popPoint(n) == n - 1

\* Whether goroutine t can execute its instruction: a Lock needs the lock
\* free (Monitor.lk also free of readers), an RLock needs no writer holding or
\* blocked in Lock, a send on dataRatePoints needs room in the buffer.
CanStep(S, t) ==
    LET ins == Instr(S, t)
    IN  CASE ins.op = "idle" -> FALSE
          [] ins.op = "Lock" /\ ins.on = "lk" ->
                t \notin S.lk.wait \/ (S.lk.w = "free" /\ S.lk.r = {})
          [] ins.op = "Lock" /\ ins.on # "lk" -> S.mu[ins.on] = "free"
          [] ins.op = "RLock" -> S.lk.w = "free" /\ S.lk.wait = {}
          [] ins.op = "push" -> S.points < cfg.ChecksPerInterval
          [] OTHER -> TRUE

\* The position of t after instruction i: the early returns of restartChannel,
\* its two ways into closeChannelAndShutdown, and the loop over an empty set.
Goto(S, t, i, b) ==
    LET ins == Program(t)[i]
        n == Len(Program(t))
        j == CASE ins.op = "range" -> IF S.inSet THEN i + 1 ELSE n
               [] t = "restartChannel" /\ i = 3 -> IF S.branch = "skip" THEN n + 1 ELSE 4
               [] t = "restartChannel" /\ i = 6 -> IF S.branch = "over" THEN 8 ELSE 7
               [] t = "restartChannel" /\ i = 7 -> IF b THEN 11 ELSE 8
               [] t = "restartChannel" /\ i = 10 -> IF S.branch = "over" THEN n + 1 ELSE 11
               [] OTHER -> i + 1
    IN  IF j > n THEN 0 ELSE j

Go(S, t) == IF S.pc[t] = 0 THEN [S EXCEPT !.pc[t] = 1] ELSE S

\* What instruction ins of goroutine t does to the locks and to the entry; b
\* is the outcome the instruction does not decide by itself.
Exec(S, t, ins, b) ==
    CASE ins.op = "Lock" /\ ins.on = "lk" -> [S EXCEPT !.lk.w = t, !.lk.wait = @ \ {t}]
      [] ins.op = "Lock" /\ ins.on # "lk" -> [S EXCEPT !.mu[ins.on] = t]
      [] ins.op = "Unlock" /\ ins.on = "lk" -> [S EXCEPT !.lk.w = "free"]
      [] ins.op = "Unlock" /\ ins.on # "lk" -> [S EXCEPT !.mu[ins.on] = "free"]
      [] ins.op = "RLock" -> [S EXCEPT !.lk.r = @ \cup {t}]
      [] ins.op = "RUnlock" -> [S EXCEPT !.lk.r = @ \ {t}]
      [] ins.op = "NewTimer" -> [S EXCEPT !.timer = TRUE]
      [] ins.op = "SubscribeToEvents" -> [S EXCEPT !.subscribed = TRUE]
      [] ins.op = "insert" -> [S EXCEPT !.inSet = TRUE]
      [] ins.op = "delete" -> [S EXCEPT !.inSet = FALSE]
      [] ins.op = "check" ->
            IF S.points < cfg.ChecksPerInterval THEN S
            ELSE LET P == [S EXCEPT !.points = popPoint(@)]
                 IN  IF b THEN Go(P, "restartChannel") ELSE P
      [] ins.op = "push" -> [S EXCEPT !.points = @ + 1]
      [] ins.op = "event" -> IF b THEN Go(S, "Shutdown") ELSE S
      [] ins.op = "Shutdown" ->
            IF S.cancelled THEN S
            ELSE Go([S EXCEPT !.cancelled = TRUE, !.subscribed = FALSE, !.timer = FALSE],
                    "onMonitoredChannelShutdown")
      [] ins.op = "guard" ->
            IF S.restartedAt THEN [S EXCEPT !.branch = "skip"]
            ELSE [S EXCEPT !.restartedAt = TRUE, !.branch = "go"]
      [] ins.op = "count" -> [S EXCEPT !.branch = IF b THEN "over" ELSE "go"]
      [] ins.op = "clear" -> [S EXCEPT !.restartedAt = FALSE]
      [] OTHER -> S

Model == <<channels, network, reconnects, monChannels, mcs, tasks, opening, last,
           calls, orphans, ncalls, pausable, monEnabled, cfg, monitor>>

\* Goroutine t executes its instruction; a Lock of Monitor.lk that cannot be
\* had leaves t among the blocked writers.
Step(t, b) ==
    /\ CanStep(sync, t)
    /\ LET i == sync.pc[t]
           ins == Instr(sync, t)
       IN  IF ins = Lock("lk") /\ ~(sync.lk.w = "free" /\ sync.lk.r = {})
           THEN sync' = [sync EXCEPT !.lk.wait = @ \cup {t}]
           ELSE sync' = [Exec(sync, t, ins, b) EXCEPT !.pc[t] = Goto(sync, t, i, b)]
    /\ UNCHANGED Model

\* OpenPushDataChannel calls Monitor.AddChannel.
CallAddChannel ==
    /\ ~sync.added
    /\ sync' = [Go(sync, "AddChannel") EXCEPT !.added = TRUE]
    /\ UNCHANGED Model

\* An event of the channel is published to the subscriber.
Publish ==
    /\ sync.subscribed /\ sync.pc["subscriber"] = 0
    /\ sync' = Go(sync, "subscriber")
    /\ UNCHANGED Model

\* The ticker of Monitor.run fires.
TickerFires ==
    /\ ~sync.exited /\ sync.pc["checkDataRate"] = 0
    /\ sync' = Go(sync, "checkDataRate")
    /\ UNCHANGED Model

\* Monitor.Shutdown: m.stop().
CallStop ==
    /\ ~sync.stopped
    /\ sync' = [sync EXCEPT !.stopped = TRUE]
    /\ UNCHANGED Model

\* Monitor.run returns and its deferred onShutdown starts.
RunReturns ==
    /\ sync.stopped /\ ~sync.exited /\ sync.pc["checkDataRate"] = 0
    /\ sync' = [Go(sync, "onShutdown") EXCEPT !.exited = TRUE]
    /\ UNCHANGED Model

\* The accept timer fires: closeChannelAndShutdown calls mc.Shutdown.
TimerFires ==
    /\ sync.timer
    /\ sync' = [Go(sync, "watchForResponderAccept") EXCEPT !.timer = FALSE]
    /\ UNCHANGED Model

LockNext ==
    \/ CallAddChannel
    \/ Publish
    \/ TickerFires
    \/ CallStop
    \/ RunReturns
    \/ TimerFires
    \/ \E t \in Threads, b \in BOOLEAN : Step(t, b)

LockSpec == MonInit /\ [][LockNext]_vars

\* ------------------------------------------------------------------- claims
\* The step in which the n-th Manager call returns.
Returned(op) == last'.n # last.n /\ last'.op = op

C2_ErrorCarriesCallerErr ==
    (last.op = "CloseWithError" /\ last.result # "NotFound") =>
        /\ Len(calls) = 3
        /\ calls[1].call = "CloseChannel" /\ calls[1].chid = last.chid
        /\ calls[2] = Eff("SendMessage", last.chid, "CancelRequest", calls[2].ok)
        /\ calls[3] = Eff("Error", last.chid, last.arg, calls[3].ok)
        /\ last.result \in {"ok", "InvalidTransition"}
        /\ (last.result = "ok") <=> calls[3].ok

C2_Witness ==
    /\ last.op = "CloseWithError" /\ last.arg = "e2" /\ last.result = "ok"
    /\ ~calls[1].ok /\ ~calls[2].ok
    /\ calls[3] = Eff("Error", last.chid, "e2", TRUE)
    /\ channels[last.chid].status = "Failing"

\* The outcome of the state-machine event a call fired last.
FsmOutcome == IF calls[Len(calls)].ok THEN "ok" ELSE "InvalidTransition"

\* C3 as stated: the result of CloseDataTransferChannel for an existing channel
\* is the outcome of the Cancel event; the errors of the transport close and
\* of the cancel message are never returned.
C3_Original ==
    (last.op = "Close" /\ last.result # "NotFound") => last.result = FsmOutcome

\* C3 as amended: for an existing channel the error of the transport close is
\* never returned; a failure to send the cancel message is returned, ahead of
\* the outcome of the Cancel event; the outcome of the Cancel event is the
\* result only when the cancel message was sent.
C3_CloseResult ==
    (last.op = "Close" /\ last.result # "NotFound") =>
        /\ calls[2].call = "SendMessage"
        /\ calls[Len(calls)].call = "Cancel"
        /\ last.result = IF ~calls[2].ok THEN "SendError" ELSE FsmOutcome

C3_Witness ==
    /\ last.op = "Close" /\ last.result = "SendError"
    /\ ~calls[1].ok /\ ~calls[2].ok
    /\ calls[Len(calls)] = Eff("Cancel", last.chid, "", TRUE)

\* C4: for an existing channel CloseDataTransferChannel calls, in this order,
\* the transport CloseChannel, SendMessage with a CancelRequest and the Cancel
\* event of the state machine (with OnRequestDisconnected before the Cancel
\* event when the send failed); the Cancel event is fired whatever the first
\* two calls gave.
C4_CloseOrder ==
    (last.op = "Close" /\ last.result # "NotFound") =>
        LET c == last.chid
            n == Len(calls)
        IN  /\ n \in {3, 4}
            /\ calls[1].call = "CloseChannel" /\ calls[1].chid = c
            /\ calls[2] = Eff("SendMessage", c, "CancelRequest", calls[2].ok)
            /\ n = 4 <=> ~calls[2].ok
            /\ n = 4 => calls[3] = Eff("OnRequestDisconnected", c, "", TRUE)
            /\ calls[n] = Eff("Cancel", c, "", calls[n].ok)

C4_Witness ==
    /\ last.op = "Close" /\ Len(calls) = 4
    /\ ~calls[1].ok /\ ~calls[2].ok /\ calls[4].call = "Cancel" /\ calls[4].ok
    /\ channels[last.chid].status = "Cancelling"

\* The single call a restart makes for a channel that is neither terminal nor
\* cleaning up, by role.
RestartCallOf(isPull, isInitiator) ==
    CASE ~isPull /\ isInitiator -> [call |-> "SendMessage", arg |-> "NewRequest:restart"]
      [] ~isPull /\ ~isInitiator ->
            [call |-> "SendMessage", arg |-> "RestartExistingChannelRequest"]
      [] isPull /\ isInitiator -> [call |-> "OpenChannel", arg |-> "NewRequest:restart"]
      [] isPull /\ ~isInitiator ->
            [call |-> "SendMessage", arg |-> "RestartExistingChannelRequest"]

\* C5: RestartDataTransferChannel on an existing channel is decided by the
\* status class, the direction and whether the local peer is the initiator: a
\* terminal channel gives success, no call and no change; a channel cleaning
\* up gets CompleteCleanupOnRestart and nothing else; any other channel gets
\* exactly the one call of its role.
C5_RestartDispatch ==
    [][(Returned("Restart") /\ Exists(channels, last'.chid)) =>
        LET c == last'.chid
            st == channels[c].status
        IN  CASE st \in Terminal ->
                    /\ last'.result = "ok" /\ calls' = <<>>
                    /\ channels' = channels /\ network' = network
              [] st \in CleaningUp ->
                    /\ Len(calls') = 1
                    /\ calls'[1].call = "CompleteCleanupOnRestart" /\ calls'[1].chid = c
                    /\ network' = network
              [] OTHER ->
                    LET want == RestartCallOf(channels[c].isPull, c.initiator = peerID)
                    IN  /\ Len(calls') = 1
                        /\ calls'[1].call = want.call /\ calls'[1].arg = want.arg
                        /\ calls'[1].chid = c
                        /\ channels' = channels]_vars

C5_Witness ==
    /\ last.op = "Restart" /\ last.result = "ok"
    /\ last.chid.initiator = peerID /\ channels[last.chid].isPull
    /\ calls = <<Eff("OpenChannel", last.chid, "NewRequest:restart", TRUE)>>

\* C6: a request is handed to the network or to the transport only after
\* CreateNew succeeded in the same call, so every request delivered to the
\* other peer has its record and no Response is ever received for a channel
\* without one; a call in which CreateNew failed sends nothing, opens no
\* transport channel and adds no monitor entry.
IsOpen(op) == op \in {"OpenPush", "OpenPull"}
IsCreateNew(e) == e.call \in {"CreateNew:push", "CreateNew:pull"}

C6_CreateBeforeSend ==
    /\ orphans = {}
    /\ \A m \in network : Exists(channels, m.chid)
    /\ opening.op # "none" =>
         /\ Exists(channels, opening.chid)
         /\ Msg(opening.chid, "NewRequest") \notin network
    /\ IsOpen(last.op) =>
         /\ \A i \in 1..Len(calls) :
              calls[i].call \in {"SendMessage", "OpenChannel", "AddChannel", "Protect"} =>
                 \E j \in 1..(i - 1) : IsCreateNew(calls[j]) /\ calls[j].ok
         /\ last.result = "AlreadyExists" =>
              /\ Len(calls) = 1 /\ IsCreateNew(calls[1]) /\ ~calls[1].ok

C6_Witness ==
    /\ last.op = "OpenPush" /\ last.result = "AlreadyExists"
    /\ channels[last.chid].status = "Ongoing"
    /\ network = {}

\* What the Manager and the monitor hold, apart from the record of the call.
Held == <<channels, network, reconnects, monChannels, mcs, tasks>>

\* C7: SendVoucher on an existing channel the local peer did not initiate
\* returns an error, makes no call and changes nothing; a SendVoucher that
\* succeeds was made by the initiator, has sent a VoucherRequest and has fired
\* NewVoucher, and the voucher is the last element of the channel's vouchers,
\* the earlier ones kept.
C7_SendVoucherInitiatorOnly ==
    [][Returned("SendVoucher") =>
        LET c == last'.chid
        IN  /\ (Exists(channels, c) /\ c.initiator # peerID) =>
                 /\ last'.result = "NotInitiator"
                 /\ calls' = <<>>
                 /\ Held' = Held
            /\ last'.result = "ok" =>
                 /\ c.initiator = peerID
                 /\ calls' = <<Eff("SendMessage", c, "VoucherRequest", TRUE),
                               Eff("NewVoucher", c, last'.arg, TRUE)>>
                 /\ channels'[c].vouchers = Append(channels[c].vouchers, last'.arg)]_vars

C7_Witness ==
    /\ last.op = "SendVoucher" /\ last.result = "ok" /\ last.arg = "v2"
    /\ channels[last.chid].vouchers = <<"v1", "v2">>

\* C8: with a transport that has no pause capability PauseDataTransferChannel
\* and ResumeDataTransferChannel return Unsupported, make no call on the
\* network, the transport or the state machine, and change nothing.
C8_PauseUnsupported ==
    [][((Returned("Pause") \/ Returned("Resume")) /\ ~pausable) =>
        /\ last'.result = "Unsupported"
        /\ calls' = <<>>
        /\ Held' = Held]_vars

C8_Witness ==
    /\ last.op = "Pause" /\ last.result = "Unsupported"
    /\ ~pausable
    /\ channels[last.chid].status = "Ongoing"

\* C9: for a channel id the store does not know, SendVoucher,
\* CloseDataTransferChannel, CloseDataTransferChannelWithError and
\* RestartDataTransferChannel return NotFound, make no call and change
\* nothing, and TransferChannelStatus returns ChannelNotFoundError.
C9_UnknownChannel ==
    [][\A op \in {"SendVoucher", "Close", "CloseWithError", "Restart", "Status"} :
         (Returned(op) /\ ~Exists(channels, last'.chid)) =>
            /\ last'.result = IF op = "Status" THEN "ChannelNotFoundError" ELSE "NotFound"
            /\ calls' = <<>>
            /\ Held' = Held]_vars

C9_Witness ==
    /\ last.op = "Restart" /\ last.result = "NotFound"
    /\ ~Exists(channels, last.chid)
    /\ \E c \in ChanIds : Exists(channels, c)

\* C10 as stated: every failed SendMessage of OpenPushDataChannel, SendVoucher,
\* CloseDataTransferChannel, CloseDataTransferChannelWithError and
\* PauseDataTransferChannel is followed by OnRequestDisconnected for the channel.
SendFailedAt(i) == calls[i].call = "SendMessage" /\ ~calls[i].ok
DisconnectedAfter(i) ==
    /\ i < Len(calls)
    /\ calls[i + 1] = Eff("OnRequestDisconnected", calls[i].chid, "", TRUE)
    /\ calls[i].chid \in reconnects

C10_Original ==
    last.op \in {"OpenPush", "SendVoucher", "Close", "CloseWithError", "Pause"} =>
        \A i \in 1..Len(calls) : SendFailedAt(i) => DisconnectedAfter(i)

\* C10 as amended: a failed SendMessage of SendVoucher, CloseDataTransferChannel
\* or PauseDataTransferChannel is followed at once by OnRequestDisconnected for
\* the channel, which marks it for the reconnect wait; a failed SendMessage of
\* OpenPushDataChannel or CloseDataTransferChannelWithError is followed by the
\* Error event on the channel and by no OnRequestDisconnected.
C10_SendFailureDisconnects ==
    /\ last.op \in {"SendVoucher", "Close", "Pause"} =>
         \A i \in 1..Len(calls) : SendFailedAt(i) => DisconnectedAfter(i)
    /\ last.op \in {"OpenPush", "CloseWithError"} =>
         \A i \in 1..Len(calls) : SendFailedAt(i) =>
            /\ i < Len(calls) /\ calls[i + 1].call = "Error"
            /\ \A j \in 1..Len(calls) : calls[j].call # "OnRequestDisconnected"

C10_Witness ==
    /\ last.op = "Pause" /\ last.result = "SendError"
    /\ SendFailedAt(2) /\ DisconnectedAfter(2)

\* The six fields checkConfig tests.
Checked(cf) == <<cf.AcceptTimeout, cf.Interval, cf.ChecksPerInterval, cf.MinBytesSent,
                 cf.MaxConsecutiveRestarts, cf.CompleteTimeout>>
AllPositive(t) == \A i \in 1..Len(t) : t[i] > 0
Constructed == monitor \in {"constructed", "off", "run"}

\* C11 as stated: a monitor is only ever constructed from a configuration that
\* is present and has all seven fields strictly positive.
C11_Original ==
    Constructed => /\ cfg # nil
                   /\ AllPositive(Checked(cfg)) /\ cfg.RestartBackoff > 0

\* C11 as amended: NewMonitor panics exactly on a configuration that is
\* present and has one of AcceptTimeout, Interval, ChecksPerInterval,
\* MinBytesSent, MaxConsecutiveRestarts, CompleteTimeout not strictly
\* positive; RestartBackoff is not tested, and a missing configuration is
\* accepted and gives a monitor whose run loop is never started.
C11_ConfigChecked ==
    /\ Constructed => (cfg = nil \/ AllPositive(Checked(cfg)))
    /\ monitor = "panicked" => (cfg # nil /\ ~AllPositive(Checked(cfg)))
    /\ monitor = "run" => cfg # nil
    /\ monitor = "off" => cfg = nil

C11_Witness ==
    /\ monitor = "run"
    /\ AllPositive(Checked(cfg)) /\ cfg.RestartBackoff = 0

\* C12: at a check tick, for every channel of the monitor whose window is full
\* (ChecksPerInterval samples, the oldest taken one interval ago): if the
\* oldest sample had at least MinBytesSent pending and fewer than MinBytesSent
\* bytes were sent since it was taken, the tick invokes restartChannel for the
\* channel, whatever restarts are already under way; the tick drops that
\* sample and records the current one.
C12_StallTriggersRestart ==
    [][Tick => \A c \in monChannels :
         LET mc == mcs[c]
         IN  Len(mc.dataRatePoints) >= cfg.ChecksPerInterval =>
               /\ mcs'[c].dataRatePoints =
                     Append(Tail(mc.dataRatePoints), dataRatePoint(mc))
               /\ (/\ Head(mc.dataRatePoints).pending >= cfg.MinBytesSent
                   /\ mc.sent - Head(mc.dataRatePoints).sent < cfg.MinBytesSent)
                  => Task("restartChannel", c) \in tasks']_vars

C12_Witness ==
    \E c \in monChannels :
        /\ Task("restartChannel", c) \in tasks
        /\ channels[c].status = "Ongoing"
        /\ mcs[c].sent > 0
        /\ mcs[c].queued - mcs[c].sent >= cfg.MinBytesSent
        /\ Len(mcs[c].dataRatePoints) = cfg.ChecksPerInterval
        /\ mcs[c].restartedAt

\* The step in which restartChannel counts an attempt of channel c beyond
\* MaxConsecutiveRestarts.
OverLimit(c) ==
    /\ mcs'[c].consecutiveRestarts = mcs[c].consecutiveRestarts + 1
    /\ mcs'[c].consecutiveRestarts > cfg.MaxConsecutiveRestarts

\* The monitor has just called CloseDataTransferChannelWithError(c, err) and
\* shut the entry of c down.
ClosedBy(c, err) ==
    /\ last'.n # last.n
    /\ last'.op = "mon.CloseWithError" /\ last'.chid = c /\ last'.arg = err
    /\ mcs'[c].cancelled /\ ~mcs'[c].subscribed
    /\ mcs'[c].acceptTimer # "running"

Watch(c) == Task("watchForResponderComplete", c)

\* C15: a FinishTransfer event seen by a subscribed entry starts the watch for
\* the responder's completion; while the entry is not shut down the complete
\* timer can fire, and when it fires the monitor calls
\* CloseDataTransferChannelWithError with the complete-timeout error and shuts
\* the entry down; once the entry is shut down the watch only ends, without
\* any call, so the complete-timeout never closes the channel.
C15_CompleteTimeout ==
    /\ [](\A c \in ChanIds :
            (Watch(c) \in tasks /\ ~mcs[c].cancelled)
               => ENABLED CompleteTimerFires(c, TRUE, TRUE))
    /\ [][\A c \in ChanIds :
            /\ (/\ mcs[c].subscribed
                /\ channels[c].status = "Ongoing"
                /\ channels'[c].status = "TransferFinished") => Watch(c) \in tasks'
            /\ (Watch(c) \in tasks /\ Watch(c) \notin tasks') =>
                  IF mcs[c].cancelled
                  THEN last' = last /\ channels' = channels /\ mcs' = mcs
                  ELSE /\ ClosedBy(c, "CompleteTimeout")
                       /\ channels[c].status \notin Terminal =>
                             channels'[c].status = "Failing"
            /\ (last'.n # last.n /\ last'.arg = "CompleteTimeout" /\ last'.chid = c) =>
                  (Watch(c) \in tasks /\ ~mcs[c].cancelled)]_vars

C15_Witness ==
    \E c \in ChanIds :
        /\ last.op = "mon.CloseWithError" /\ last.arg = "CompleteTimeout" /\ last.chid = c
        /\ last.result = "ok"
        /\ mcs[c].cancelled /\ mcs[c].acceptTimer = "stopped"
        /\ channels[c].status = "Failing"
        /\ Watch(c) \notin tasks

\* An entry of the monitor that is shut down altogether: context cancelled,
\* unsubscribed, out of Monitor.channels, no timer running, no watch and no
\* backoff sleep left.
ShutDown(c) ==
    /\ mcs[c].cancelled /\ ~mcs[c].subscribed
    /\ c \notin monChannels
    /\ mcs[c].acceptTimer # "running"
    /\ \A t \in tasks : t.chid # c

\* C16: once the run loop has exited after Stop and the goroutines the
\* shutdown spawned have run, every entry that was ever added to the monitor,
\* also by an AddChannel that interleaves with the shutdown, is shut down
\* altogether.
C16_StopShutsEveryEntry ==
    (monitor = "exited" /\ tasks = {}) =>
        \A c \in ChanIds : mcs[c].present => ShutDown(c)

\* C17: whenever the subscriber of a monitored channel observes an Error
\* event, which moves the channel to Failing, a restart attempt is triggered
\* for the channel (restartChannel is invoked).
C17_ErrorTriggersRestart ==
    [][\A c \in ChanIds :
          (/\ mcs[c].subscribed
           /\ channels[c].status # "Failing"
           /\ channels'[c].status = "Failing")
             => Task("restartChannel", c) \in tasks']_vars

\* The stages of a restart attempt that has passed the guard.
RestartStages == {"restart:count", "restart:call", "restart:failed", "restart:backoff"}

InProgress(c) == {t \in tasks : t.chid = c /\ t.kind \in RestartStages}

\* C18: at most one restart attempt of a channel is past the guard at any
\* time, and it holds restartedAt; an attempt that reaches the guard while
\* restartedAt is set ends there and changes nothing: no count, no call.  The
\* counter grows and the restart message is sent only by the one attempt in
\* progress.
C18_OneRestartInProgress ==
    /\ [](\A c \in ChanIds :
            /\ Cardinality(InProgress(c)) <= 1
            /\ InProgress(c) # {} => mcs[c].restartedAt)
    /\ [][\A c \in ChanIds :
            /\ (/\ Task("restartChannel", c) \in tasks
                /\ Task("restartChannel", c) \notin tasks'
                /\ mcs[c].restartedAt)
                  => /\ mcs' = mcs /\ channels' = channels /\ network' = network
                     /\ last' = last
                     /\ tasks' = tasks \ {Task("restartChannel", c)}
            /\ mcs'[c].consecutiveRestarts > mcs[c].consecutiveRestarts
                  => /\ Task("restart:count", c) \in tasks
                     /\ Task("restart:count", c) \notin tasks'
                     /\ mcs'[c].consecutiveRestarts = mcs[c].consecutiveRestarts + 1
            /\ (last'.n # last.n /\ last'.op = "mon.Restart" /\ last'.chid = c)
                  => /\ Task("restart:call", c) \in tasks
                     /\ Task("restart:call", c) \notin tasks']_vars

\* An attempt is about to reach the guard while another one is in progress.
C18_Witness ==
    \E c \in ChanIds :
        /\ Task("restartChannel", c) \in tasks
        /\ InProgress(c) # {}
        /\ mcs[c].restartedAt

Backoff(c) == Task("restart:backoff", c)

MonRestartReturns(c) ==
    last'.n # last.n /\ last'.op = "mon.Restart" /\ last'.chid = c

\* C19: a RestartDataTransferChannel of the monitor that returns successfully
\* under a positive RestartBackoff leaves the attempt sleeping with restartedAt
\* set; while it sleeps restartedAt stays set and the monitor makes no
\* RestartDataTransferChannel call for the channel; restartedAt is zeroed
\* after a success only by the end of the sleep (timer or cancelled context),
\* at once only when RestartBackoff is zero.
C19_BackoffBeforeNextRestart ==
    /\ [](\A c \in ChanIds :
            Backoff(c) \in tasks => mcs[c].restartedAt /\ InProgress(c) = {Backoff(c)})
    /\ [][\A c \in ChanIds :
            /\ MonRestartReturns(c) => Backoff(c) \notin tasks
            /\ (MonRestartReturns(c) /\ last'.result = "ok" /\ cfg.RestartBackoff > 0)
                  => Backoff(c) \in tasks' /\ mcs'[c].restartedAt
            /\ (Backoff(c) \in tasks /\ Backoff(c) \in tasks')
                  => mcs'[c].restartedAt /\ ~MonRestartReturns(c)
            /\ (mcs[c].restartedAt /\ ~mcs'[c].restartedAt)
                  => \/ Backoff(c) \in tasks /\ Backoff(c) \notin tasks'
                     \/ /\ Task("restart:failed", c) \in tasks
                        /\ Task("restart:failed", c) \notin tasks'
                     \/ /\ MonRestartReturns(c) /\ last'.result = "ok"
                        /\ cfg.RestartBackoff = 0]_vars

\* The attempt sleeps after a successful restart while the next check has
\* already asked for another restart.
C19_Witness ==
    \E c \in ChanIds :
        /\ Backoff(c) \in tasks
        /\ last.op = "mon.Restart" /\ last.result = "ok" /\ last.chid = c
        /\ Task("restartChannel", c) \in tasks

\* The subscriber of c observes a DataSent event in this step.
DataSentObserved(c) ==
    mcs[c].subscribed /\ channels'[c].sent > channels[c].sent

\* C20 as stated: every observed DataSent zeroes the restart counter, and the
\* stall it ends has produced exactly one restart, so the counter it zeroes
\* is at most one.
C20_Original ==
    [][\A c \in ChanIds :
          DataSentObserved(c) =>
             mcs'[c].consecutiveRestarts = 0 /\ mcs[c].consecutiveRestarts <= 1]_vars

\* C20: every observed DataSent zeroes the restart counter and records the
\* bytes sent; the stall it ends has produced at most MaxConsecutiveRestarts
\* restarts (one for every check that found the stall with no attempt in
\* progress), and the counter changes otherwise only by one, in the attempt's
\* counting step.
C20_DataSentResetsCounter ==
    [][\A c \in ChanIds :
          /\ DataSentObserved(c) =>
                /\ mcs'[c].consecutiveRestarts = 0
                /\ mcs'[c].sent = channels'[c].sent
                /\ mcs[c].consecutiveRestarts <= cfg.MaxConsecutiveRestarts
          /\ mcs'[c].consecutiveRestarts # mcs[c].consecutiveRestarts =>
                \/ DataSentObserved(c)
                \/ /\ mcs'[c].consecutiveRestarts = mcs[c].consecutiveRestarts + 1
                   /\ Task("restart:count", c) \in tasks
                \/ ~mcs[c].present]_vars

\* A restart of the monitor has been followed by data progress: the counter
\* that the attempt raised is zero again.
C20_Witness ==
    \E c \in ChanIds :
        /\ last.op = "mon.Restart" /\ last.result = "ok" /\ last.chid = c
        /\ mcs[c].subscribed /\ mcs[c].sent > 0
        /\ mcs[c].consecutiveRestarts = 0

\* The sample of the entry of c now: (queued - sent, sent).
Current(c) ==
    [pending |-> IF mcs[c].queued > mcs[c].sent THEN mcs[c].queued - mcs[c].sent ELSE 0,
     sent |-> mcs[c].sent]

\* The tick has spawned restartChannel for c, or has not.
Triggered(c, yes) ==
    tasks' \cap {Task("restartChannel", c)} =
        IF yes THEN {Task("restartChannel", c)}
        ELSE tasks \cap {Task("restartChannel", c)}

Accepted(c) ==
    channels[c].status = "Requested" /\ channels'[c].status = "Ongoing"

\* C22: the entry of a push channel exists before its request is on the
\* network, so when the Accept is applied the entry is subscribed, unless it
\* has been shut down by then; the Accept it observes stops the accept timer,
\* a stopped timer stays stopped, and only a running timer closes the channel
\* with the accept-timeout error.
C22_AcceptStopsTimer ==
    /\ [](\A c \in ChanIds : Msg(c, "NewRequest") \in network => mcs[c].present)
    /\ [][\A c \in ChanIds :
            /\ Accepted(c) =>
                  /\ mcs[c].present
                  /\ mcs[c].subscribed \/ mcs[c].cancelled
                  /\ mcs'[c].acceptTimer \in {"stopped", "fired"}
                  /\ mcs[c].subscribed => mcs'[c].acceptTimer = "stopped"
            /\ mcs[c].acceptTimer = "stopped" =>
                  /\ mcs'[c].acceptTimer = "stopped"
                  /\ ~(last'.n # last.n /\ last'.chid = c /\ last'.arg = "AcceptTimeout")]_vars

\* The Accept has been observed by a live entry and the transfer goes on.
C22_Witness ==
    \E c \in ChanIds :
        /\ mcs[c].acceptTimer = "stopped"
        /\ mcs[c].subscribed /\ ~mcs[c].cancelled
        /\ channels[c].status = "Ongoing"
        /\ mcs[c].queued > 0

\* The subscriber of c observes in this step an event whose snapshot is in a
\* terminal or cleaning-up status.
EndObserved(c) ==
    /\ mcs[c].subscribed
    /\ channels'[c] # channels[c]
    /\ channels'[c].status \in Terminal \cup CleaningUp

\* C23: an event observed with a terminal or cleaning-up snapshot spawns the
\* shutdown of the entry and leaves queued, sent and the restart counter of the
\* entry as they were; the spawned shutdown leads to the entry being shut down
\* (context cancelled, unsubscribed) and out of Monitor.channels.
C23_EndShutsEntryDown ==
    /\ [][\A c \in ChanIds :
            EndObserved(c) =>
               /\ Task("Shutdown", c) \in tasks' \/ mcs'[c].cancelled
               /\ mcs'[c].queued = mcs[c].queued
               /\ mcs'[c].sent = mcs[c].sent
               /\ mcs'[c].consecutiveRestarts = mcs[c].consecutiveRestarts]_vars
    /\ \A c \in ChanIds :
          Task("Shutdown", c) \in tasks
             ~> (mcs[c].cancelled /\ ~mcs[c].subscribed /\ c \notin monChannels)

\* The transfer has ended by itself, with data sent, and the entry is gone.
C23_Witness ==
    \E c \in ChanIds :
        /\ channels[c].status \in Terminal
        /\ mcs[c].present /\ mcs[c].cancelled /\ ~mcs[c].subscribed
        /\ c \notin monChannels
        /\ mcs[c].sent > 0
        /\ last.op # "mon.CloseWithError"

\* C24: once the entry of a channel has been shut down, the monitor makes no
\* RestartDataTransferChannel and no CloseDataTransferChannelWithError call
\* for the channel.
C24_NoCallAfterShutdown ==
    [][\A c \in ChanIds :
          (/\ last'.n # last.n /\ last'.chid = c
           /\ last'.op \in {"mon.Restart", "mon.CloseWithError"})
             => ~mcs[c].cancelled]_vars

\* The removal callback `go mc.onShutdown(mc)` of channel c.
Removal(c) == Task("onShutdown", c)

\* C25: an entry is subscribed from its construction until the one Shutdown
\* that takes effect, which cancels the context, unsubscribes and spawns the
\* removal callback in one step; every later Shutdown changes nothing: the
\* entry stays cancelled and unsubscribed and no second removal callback is
\* spawned; the entry leaves Monitor.channels once, by that callback.
C25_ShutdownOnce ==
    /\ [](\A c \in ChanIds : mcs[c].present => (mcs[c].subscribed <=> ~mcs[c].cancelled))
    /\ [][\A c \in ChanIds :
            /\ mcs[c].cancelled => mcs'[c].cancelled /\ ~mcs'[c].subscribed
            /\ (~mcs[c].cancelled /\ mcs'[c].cancelled) =>
                  /\ mcs[c].subscribed
                  /\ Removal(c) \in tasks'
                  /\ c \in monChannels'
            /\ (Removal(c) \notin tasks /\ Removal(c) \in tasks') =>
                  ~mcs[c].cancelled /\ mcs'[c].cancelled
            /\ (c \in monChannels /\ c \notin monChannels') =>
                  /\ mcs[c].cancelled
                  /\ Removal(c) \in tasks /\ Removal(c) \notin tasks'
            /\ (mcs[c].present /\ c \notin monChannels) =>
                  c \notin monChannels' /\ Removal(c) \notin tasks']_vars

\* Shutdown is about to be called on an entry that has been shut down and
\* removed already.
C25_Witness ==
    \E c \in ChanIds :
        /\ Task("Shutdown", c) \in tasks
        /\ mcs[c].cancelled
        /\ c \notin monChannels
        /\ Removal(c) \notin tasks

\* Goroutine t is at a Lock, an RLock or a send that it cannot execute.
Blocked(t) == Instr(sync, t).op # "idle" /\ ~CanStep(sync, t)

\* The goroutines that t waits for: the holders of the lock it wants, for an
\* RLock also the writers blocked in Lock; nobody for a send on a full buffer,
\* which only the sender itself receives from.
Blockers(t) ==
    LET ins == Instr(sync, t)
        W == IF sync.lk.w = "free" THEN {} ELSE {sync.lk.w}
    IN  CASE ins.op = "Lock" /\ ins.on = "lk" -> W \cup sync.lk.r
          [] ins.op = "Lock" /\ ins.on # "lk" -> {sync.mu[ins.on]}
          [] ins.op = "RLock" -> W \cup sync.lk.wait
          [] OTHER -> {}

\* C26: when checkDataRate sends the current sample, the buffer has room, so
\* the send does not block; and no set of goroutines waits only for one
\* another (or for nobody) over Monitor.lk, shutdownLk, statsLk, restartLk and
\* the buffer.
C26_NoDeadlock ==
    /\ \A t \in Threads :
          Instr(sync, t).op = "push" => sync.points < cfg.ChecksPerInterval
    /\ sync.points <= cfg.ChecksPerInterval
    /\ \A D \in SUBSET Threads :
          D # {} => \E t \in D : ~Blocked(t) \/ ~(Blockers(t) \subseteq D)

\* The check is about to send into the buffer it has just received from,
\* holding statsLk and Monitor.lk for reading, while the subscriber waits for
\* statsLk and the removal callback is blocked in Monitor.lk.Lock.
C26_Witness ==
    /\ Instr(sync, "checkDataRate").op = "push"
    /\ sync.points = cfg.ChecksPerInterval - 1
    /\ sync.pc["restartChannel"] > 0
    /\ Blocked("subscriber")
    /\ "onMonitoredChannelShutdown" \in sync.lk.wait

====
